---- MODULE Spec2Model ----
(***************************************************************************)
(* Omnivocal: the voice-activity-gated capture loop of                     *)
(* Recorder._record_to_path (src/src/omnivocal/audio.py) and the part of   *)
(* the `once` command that calls it (src/src/omnivocal/cli.py).            *)
(*                                                                         *)
(* Two execution contexts are modelled: the frame callback, which the      *)
(* audio backend invokes once per 20ms block, and the supervisor, which    *)
(* polls every 100ms inside the `with sd.InputStream(...)` block.  Time is *)
(* counted in milliseconds since start_time.  Events that are due at the   *)
(* same instant may happen in either order.                                *)
(***************************************************************************)
EXTENDS Integers, Sequences, FiniteSets, TLC

(* ---------------------------------------------------------------------- *)
(* Bounds of the model and constants of the program                       *)
(* ---------------------------------------------------------------------- *)

\* largest recording.max_seconds the model draws
MaxSeconds == 1

\* vad.silence_ms_to_stop values the model draws: one that is not a
\* multiple of the frame duration, one at which the float sum of the frame
\* durations falls short of the exact sum, and one long window
SilenceMsChoices == {50, 200, 600}

\* duration of one block: block_size / sample_rate = int(sr * 0.02) / sr
FrameMs == 20

\* time.sleep(0.1) of the supervisor
PollMs == 100

\* defaults of the end-to-end scenario: VadConfig.silence_ms_to_stop and
\* RecordingConfig.max_seconds, and the scenario's number of speech frames
DefaultSilenceMs == 1200
DefaultMaxSeconds == 180

\* ChutesConfig.max_retries
DefaultMaxRetries == 3
ScenarioSpeechFrames == 50

Classes == {"speech", "silence", "fault"}

VARIABLES
  max_seconds,          \* recording_config.max_seconds
  silence_ms_to_stop,   \* vad_config.silence_ms_to_stop
  vad,                  \* self.vad is not None
  backendLive,          \* the audio backend delivers blocks
  scenario,             \* the classifications follow the end-to-end script
  pc,                   \* position of the supervisor
  stream,               \* "unopened", "active", "inactive", "closed"
  now,                  \* ms since start_time
  wakeAt,               \* instant of the supervisor's next poll
  nextFrameAt,          \* instant of the backend's next block
  frames,               \* the frame buffer (ids of the blocks, in order)
  silence_duration,     \* accumulated silence, exact ms
  has_detected_speech,
  recording_finished,
  outcome,              \* how record_once ended
  exitReason,           \* why the supervisor left the with block
  wav,                  \* frames written to the file, <<>> if none
  wavExists,            \* a file exists at file_path
  exitCode,             \* return value of _command_once, -1 while running
  lastCls,              \* classification of the most recent block
  lastRaised,           \* exception that left the most recent callback
  trailing,             \* exact ms of blocks classified silence since the
                        \* most recent block classified speech
  speechFed,            \* some block was classified speech
  thresholdFrame,       \* block at which trailing first reached
                        \* silence_ms_to_stop since the most recent speech
                        \* block, 0 if it has not; frozen once
                        \* recording_finished is set
  finishedFrame,        \* block whose callback first set recording_finished
  finishedAt,           \* instant at which it did, -1 if none
  \* _float_to_pcm16
  samples,              \* samples passed to _float_to_pcm16, in units of
                        \* 1 / SampleDen
  pcm,                  \* the bytes it returned
  pcmDone,              \* it has returned
  \* the `once` command and ChutesClient.transcribe
  no_vad,               \* args.no_vad
  vad_enabled,          \* config.vad.enabled
  cfg_vad,              \* vad.enabled as load_config returned it
  missing,              \* the dependency that failed to import, or "none"
  auto,                 \* args.auto
  auto_copy,            \* config.ui.auto_copy
  clip_enabled,         \* config.clipboard.enabled
  max_retries,          \* config.chutes.max_retries
  opc,                  \* position of main / _command_once
  recorded,             \* how record_once ended
  tempFile,             \* the recorded file exists
  attempts,             \* outcome of each session.post so far, in order
  sleeps,               \* seconds of each time.sleep so far, in order
  apiResult,            \* what _post_with_retries returned or raised
  rendered,             \* render_transcription has printed the transcript
  copied,               \* the transcript was handed to the clipboard command
  raised,               \* exception that reached main, or "none"
  message,              \* error message printed last, or "none"
  ret,                  \* return value of main, -1 while running
  \* configuration
  fileExists,           \* a file exists at CONFIG_PATH
  dirExists,            \* the directory of CONFIG_PATH exists
  file,                 \* the options the file gives, with their values
  env,                  \* os.environ: value of each variable that is set
  config,               \* the OmnivocalConfig in memory, <<>> before loading
  confOp,               \* the operation run last, with its arguments
  confErr,              \* exception it raised, or "none"
  confSteps             \* number of operations run so far

pcmVars == <<samples, pcm, pcmDone>>

onceCfgVars == <<no_vad, cfg_vad, missing, auto, auto_copy, clip_enabled,
                 max_retries>>
onceVars == <<onceCfgVars, vad_enabled, opc, recorded, tempFile, attempts,
              sleeps, apiResult, rendered, copied, raised, message, ret>>

confVars == <<fileExists, dirExists, file, env, config, confOp, confErr,
              confSteps>>

\* the variables the capture loop does not touch
auxVars == <<pcmVars, onceVars, confVars>>

captureVars == <<max_seconds, silence_ms_to_stop, vad, backendLive, scenario,
                 pc, stream, now, wakeAt, nextFrameAt, frames,
                 silence_duration, has_detected_speech, recording_finished,
                 outcome, exitReason, wav, wavExists, exitCode, lastCls,
                 lastRaised, trailing, speechFed, thresholdFrame,
                 finishedFrame, finishedAt>>

vars == <<captureVars, auxVars>>

\* the variables _float_to_pcm16 does not touch
notPcmVars == <<captureVars, onceVars, confVars>>

\* the variables the `once` command model does not touch
notOnceVars == <<captureVars, pcmVars, confVars>>

\* the variables the configuration operations do not touch
notConfVars == <<captureVars, pcmVars, onceVars>>

cfgVars == <<max_seconds, silence_ms_to_stop, vad, backendLive, scenario>>
cbVars == <<frames, silence_duration, has_detected_speech, recording_finished>>
ghostVars == <<lastCls, lastRaised, trailing, speechFed, thresholdFrame,
               finishedFrame, finishedAt>>

Min(a, b) == IF a <= b THEN a ELSE b

\* max_duration of the supervisor, in ms
MaxMs == max_seconds * 1000

(* ---------------------------------------------------------------------- *)
(* The frame callback                                                     *)
(* ---------------------------------------------------------------------- *)

\* silence_duration is a float: n additions of 0.02 starting from 0.0.  For
\* these n (computed for n <= 9000, i.e. 180 seconds) the float sum times
\* 1000 is below the exact 20 * n, for every other n it is at or above it
\* and below 20 * n + 1.
FloatShortfall(n) ==
  \/ n \in 10..14
  \/ n \in 208..1789
  \/ n \in 4309..7212

\* mutant: the comparison is made one frame ahead
SilenceReachedEarly(sil, thr) == sil + FrameMs >= thr

\* silence_duration * 1000 >= self.vad_config.silence_ms_to_stop
SilenceReached(sil, thr) ==
  IF FloatShortfall(sil \div FrameMs) THEN sil > thr ELSE sil >= thr

\* mutant: silence is counted before any speech was detected
TryBodyNoSpeechGate(sil, has, fin, cls, thr) ==
  IF cls = "fault"
  THEN [sil |-> sil, has |-> has, fin |-> fin, exc |-> "ClassifierError"]
  ELSE IF cls = "speech"
  THEN [sil |-> 0, has |-> TRUE, fin |-> fin, exc |-> "none"]
  ELSE IF SilenceReached(sil + FrameMs, thr)
  THEN [sil |-> sil + FrameMs, has |-> has, fin |-> TRUE,
        exc |-> "CallbackStop"]
  ELSE [sil |-> sil + FrameMs, has |-> has, fin |-> fin, exc |-> "none"]

\* mutant: a classifier fault is taken for a silence classification
TryBodyFaultAsSilence(sil, has, fin, cls, thr) ==
  IF cls = "speech"
  THEN [sil |-> 0, has |-> TRUE, fin |-> fin, exc |-> "none"]
  ELSE IF has
  THEN IF SilenceReached(sil + FrameMs, thr)
       THEN [sil |-> sil + FrameMs, has |-> has, fin |-> TRUE,
             exc |-> "CallbackStop"]
       ELSE [sil |-> sil + FrameMs, has |-> has, fin |-> fin, exc |-> "none"]
  ELSE [sil |-> sil, has |-> has, fin |-> fin, exc |-> "none"]

\* mutant: a speech block clears the stop flag and capture resumes
TryBodySpeechResumes(sil, has, fin, cls, thr) ==
  IF cls = "fault"
  THEN [sil |-> sil, has |-> has, fin |-> fin, exc |-> "ClassifierError"]
  ELSE IF cls = "speech"
  THEN [sil |-> 0, has |-> TRUE, fin |-> FALSE, exc |-> "none"]
  ELSE IF has
  THEN IF SilenceReached(sil + FrameMs, thr)
       THEN [sil |-> sil + FrameMs, has |-> has, fin |-> TRUE,
             exc |-> "CallbackStop"]
       ELSE [sil |-> sil + FrameMs, has |-> has, fin |-> fin, exc |-> "none"]
  ELSE [sil |-> sil, has |-> has, fin |-> fin, exc |-> "none"]

\* the body of the try block: the new values of the three cells and the
\* exception raised inside the try
TryBody(sil, has, fin, cls, thr) ==
  IF cls = "fault"
  THEN [sil |-> sil, has |-> has, fin |-> fin, exc |-> "ClassifierError"]
  ELSE IF cls = "speech"
  THEN [sil |-> 0, has |-> TRUE, fin |-> fin, exc |-> "none"]
  ELSE IF has
  THEN IF SilenceReached(sil + FrameMs, thr)
       THEN [sil |-> sil + FrameMs, has |-> has, fin |-> TRUE,
             exc |-> "CallbackStop"]
       ELSE [sil |-> sil + FrameMs, has |-> has, fin |-> fin, exc |-> "none"]
  ELSE [sil |-> sil, has |-> has, fin |-> fin, exc |-> "none"]

\* mutant: `except sd.CallbackStop: pass`
CaughtOnlyCallbackStop(exc) == exc = "CallbackStop"

\* `except Exception: pass`: sd.CallbackStop and the classifier's errors are
\* subclasses of Exception
Caught(exc) == exc \in {"ClassifierError", "CallbackStop"}

\* mutant: the block is classified although self.vad is None
CallbackBodyAlwaysClassifies(sil, has, fin, cls, thr, vadOn) ==
  LET r == TryBody(sil, has, fin, cls, thr)
  IN  [r EXCEPT !.exc = IF Caught(r.exc) THEN "none" ELSE r.exc]

\* callback(indata, frame_count, time_info, status) without the append
CallbackBody(sil, has, fin, cls, thr, vadOn) ==
  IF ~vadOn
  THEN [sil |-> sil, has |-> has, fin |-> fin, exc |-> "none"]
  ELSE LET r == TryBody(sil, has, fin, cls, thr)
       IN  [r EXCEPT !.exc = IF Caught(r.exc) THEN "none" ELSE r.exc]

\* classifications the block with this index can get
ClassesOf(i) ==
  IF scenario
  THEN IF i <= ScenarioSpeechFrames THEN {"speech"} ELSE {"silence"}
  ELSE Classes

(* ---------------------------------------------------------------------- *)
(* The supervisor                                                         *)
(* ---------------------------------------------------------------------- *)

\* mutant: the loop gives up one polling interval before the ceiling
LoopConditionEarly(active, t, maxms) == active /\ t + PollMs < maxms

\* mutant: the loop does not look at the clock
LoopConditionNoClock(active, t, maxms) == active

\* stream.active and (time.time() - start_time) < max_duration
LoopCondition(active, t, maxms) == active /\ t < maxms

\* mutant: the loop does not test recording_finished
LoopStepNoBreak(active, t, maxms, fin) ==
  IF ~LoopCondition(active, t, maxms) THEN "exit" ELSE "sleep"

\* one iteration of the while loop: leave by the condition, break on
\* recording_finished, or sleep
LoopStep(active, t, maxms, fin) ==
  IF ~LoopCondition(active, t, maxms) THEN "exit"
  ELSE IF fin THEN "break"
  ELSE "sleep"

\* mutant: the last block is trimmed from the file
WriteWavFileDropsLast(data) ==
  IF Len(data) = 0
  THEN [outcome |-> "no_audio", written |-> FALSE, data |-> <<>>]
  ELSE [outcome |-> "path", written |-> TRUE,
        data |-> SubSeq(data, 1, Len(data) - 1)]

\* mutant: the empty check is missing and an empty file is written
WriteWavFileNoCheck(data) ==
  [outcome |-> "path", written |-> TRUE, data |-> data]

\* _write_wav(file_path, data): raises AudioError("No audio captured")
\* before the file is opened when data is empty
WriteWavFile(data) ==
  IF Len(data) = 0
  THEN [outcome |-> "no_audio", written |-> FALSE, data |-> <<>>]
  ELSE [outcome |-> "path", written |-> TRUE, data |-> data]

(* ---------------------------------------------------------------------- *)
(* Initial states                                                         *)
(* ---------------------------------------------------------------------- *)

InitRest ==
  /\ pc = "start"
  /\ stream = "unopened"
  /\ now = 0
  /\ wakeAt = 0
  /\ nextFrameAt = 0
  /\ frames = <<>>
  /\ silence_duration = 0
  /\ has_detected_speech = FALSE
  /\ recording_finished = FALSE
  /\ outcome = "none"
  /\ exitReason = "none"
  /\ wav = <<>>
  /\ wavExists = FALSE
  /\ exitCode = -1
  /\ lastCls = "none"
  /\ lastRaised = "none"
  /\ trailing = 0
  /\ speechFed = FALSE
  /\ thresholdFrame = 0
  /\ finishedFrame = 0
  /\ finishedAt = -1

\* nothing has been encoded
PcmIdle ==
  /\ samples = <<>>
  /\ pcm = <<>>
  /\ pcmDone = FALSE

\* no command is running; the configuration is the default one
OnceIdle ==
  /\ no_vad = FALSE
  /\ cfg_vad = TRUE
  /\ vad_enabled = TRUE
  /\ missing = "none"
  /\ auto = FALSE
  /\ auto_copy = TRUE
  /\ clip_enabled = TRUE
  /\ max_retries = DefaultMaxRetries
  /\ opc = "idle"
  /\ recorded = "none"
  /\ tempFile = FALSE
  /\ attempts = <<>>
  /\ sleeps = <<>>
  /\ apiResult = "none"
  /\ rendered = FALSE
  /\ copied = FALSE
  /\ raised = "none"
  /\ message = "none"
  /\ ret = -1

\* no configuration operation has run: no file, no directory, an
\* environment without variables, nothing loaded
ConfIdle ==
  /\ fileExists = FALSE
  /\ dirExists = FALSE
  /\ file = <<>>
  /\ env = <<>>
  /\ config = <<>>
  /\ confOp = [op |-> "none", key |-> <<>>, value |-> <<>>]
  /\ confErr = "none"
  /\ confSteps = 0

\* the other parts of the program are at rest
AuxIdle == PcmIdle /\ OnceIdle /\ ConfIdle

\* the capture loop is at rest, with the default configuration
CaptureIdle ==
  /\ max_seconds = DefaultMaxSeconds
  /\ silence_ms_to_stop = DefaultSilenceMs
  /\ vad = TRUE
  /\ backendLive = TRUE
  /\ scenario = FALSE
  /\ InitRest

\* any configuration, any classifications
Init ==
  /\ AuxIdle
  /\ max_seconds \in 1..MaxSeconds
  /\ silence_ms_to_stop \in SilenceMsChoices
  /\ vad \in BOOLEAN
  /\ backendLive \in BOOLEAN
  /\ scenario = FALSE
  /\ InitRest

\* the end-to-end scenario: default configuration, VAD enabled, speech
\* blocks followed by silence blocks
InitScenario ==
  /\ AuxIdle
  /\ max_seconds = DefaultMaxSeconds
  /\ silence_ms_to_stop = DefaultSilenceMs
  /\ vad = TRUE
  /\ backendLive = TRUE
  /\ scenario = TRUE
  /\ InitRest

(* ---------------------------------------------------------------------- *)
(* Actions                                                                *)
(* ---------------------------------------------------------------------- *)

\* mutant: a failure to open is swallowed and the code goes on to write
OpenStreamSwallowsFailure ==
  /\ UNCHANGED auxVars
  /\ pc = "start"
  /\ \E ok \in BOOLEAN :
       IF ok
       THEN /\ stream' = "active"
            /\ pc' = "loop"
            /\ nextFrameAt' = now + FrameMs
            /\ wakeAt' = now
            /\ UNCHANGED exitReason
       ELSE /\ exitReason' = "open_failed"
            /\ pc' = "write"
            /\ UNCHANGED <<stream, nextFrameAt, wakeAt>>
  /\ UNCHANGED <<cfgVars, cbVars, ghostVars, now, wav, wavExists, outcome,
                 exitCode>>

\* `with sd.InputStream(...) as stream:` and start_time = time.time(); a
\* failure to open is wrapped in AudioError, which _command_once reports
OpenStream ==
  /\ UNCHANGED auxVars
  /\ pc = "start"
  /\ \E ok \in BOOLEAN :
       IF ok
       THEN /\ stream' = "active"
            /\ pc' = "loop"
            /\ nextFrameAt' = now + FrameMs
            /\ wakeAt' = now
            /\ UNCHANGED <<outcome, exitReason, exitCode>>
       ELSE /\ outcome' = "capture_error"
            /\ exitReason' = "open_failed"
            /\ exitCode' = 1
            /\ pc' = "done"
            /\ UNCHANGED <<stream, nextFrameAt, wakeAt>>
  /\ UNCHANGED <<cfgVars, cbVars, ghostVars, now, wav, wavExists>>

\* one invocation of callback by the audio backend.  An exception that
\* leaves the callback makes the backend stop the stream.
Callback ==
  /\ UNCHANGED auxVars
  /\ stream = "active"
  /\ backendLive
  /\ now >= nextFrameAt
  /\ \E cls \in ClassesOf(Len(frames) + 1) :
       LET i == Len(frames) + 1
           r == CallbackBody(silence_duration, has_detected_speech,
                             recording_finished, cls, silence_ms_to_stop, vad)
           tr == IF vad /\ cls = "speech" THEN 0
                 ELSE IF vad /\ cls = "silence" /\ speechFed
                      THEN trailing + FrameMs
                      ELSE trailing
       IN  /\ frames' = Append(frames, i)
           /\ silence_duration' = r.sil
           /\ has_detected_speech' = r.has
           /\ recording_finished' = r.fin
           /\ stream' = IF r.exc = "none" THEN stream ELSE "inactive"
           /\ lastRaised' = r.exc
           /\ lastCls' = IF vad THEN cls ELSE "skipped"
           /\ trailing' = tr
           /\ speechFed' = (speechFed \/ (vad /\ cls = "speech"))
           /\ thresholdFrame' =
                IF recording_finished THEN thresholdFrame
                ELSE IF vad /\ cls = "speech" THEN 0
                ELSE IF trailing < silence_ms_to_stop /\ tr >= silence_ms_to_stop
                THEN i
                ELSE thresholdFrame
           /\ finishedFrame' =
                IF ~recording_finished /\ r.fin THEN i ELSE finishedFrame
           /\ finishedAt' =
                IF ~recording_finished /\ r.fin THEN now ELSE finishedAt
  /\ nextFrameAt' = nextFrameAt + FrameMs
  /\ UNCHANGED <<cfgVars, pc, now, wakeAt, outcome, exitReason, wav,
                 wavExists, exitCode>>

\* mutant: leaving the with block does not close the stream
PollLeavesStreamOpen ==
  /\ UNCHANGED auxVars
  /\ pc = "loop"
  /\ now >= wakeAt
  /\ LET step == LoopStep(stream = "active", now, MaxMs, recording_finished)
     IN  IF step = "sleep"
         THEN /\ wakeAt' = now + PollMs
              /\ UNCHANGED <<stream, pc, exitReason>>
         ELSE /\ pc' = "write"
              /\ exitReason' = IF step = "break" THEN "finished"
                               ELSE IF stream = "active" THEN "timeout"
                               ELSE "inactive"
              /\ UNCHANGED <<stream, wakeAt>>
  /\ UNCHANGED <<cfgVars, cbVars, ghostVars, now, nextFrameAt, outcome, wav,
                 wavExists, exitCode>>

\* one evaluation of the while condition and of `if recording_finished`,
\* followed by time.sleep(0.1) or by leaving the with block, which closes
\* the stream
Poll ==
  /\ UNCHANGED auxVars
  /\ pc = "loop"
  /\ now >= wakeAt
  /\ LET step == LoopStep(stream = "active", now, MaxMs, recording_finished)
     IN  IF step = "sleep"
         THEN /\ wakeAt' = now + PollMs
              /\ UNCHANGED <<stream, pc, exitReason>>
         ELSE /\ stream' = "closed"
              /\ pc' = "write"
              /\ exitReason' = IF step = "break" THEN "finished"
                               ELSE IF stream = "active" THEN "timeout"
                               ELSE "inactive"
              /\ UNCHANGED wakeAt
  /\ UNCHANGED <<cfgVars, cbVars, ghostVars, now, nextFrameAt, outcome, wav,
                 wavExists, exitCode>>

\* concatenate the frames and _write_wav; "no_audio" fails the `once`
\* command with exit code 1, a path lets it continue
WriteWav ==
  /\ UNCHANGED auxVars
  /\ pc = "write"
  /\ LET w == WriteWavFile(frames)
     IN  /\ outcome' = w.outcome
         /\ wav' = IF w.written THEN w.data ELSE wav
         /\ wavExists' = (wavExists \/ w.written)
         /\ exitCode' = IF w.outcome = "no_audio" THEN 1 ELSE exitCode
  /\ pc' = "done"
  /\ UNCHANGED <<cfgVars, cbVars, ghostVars, stream, now, wakeAt, nextFrameAt,
                 exitReason>>

\* KeyboardInterrupt in the supervisor: the with block closes the stream,
\* neither except clause of _record_to_path matches, and _command_once
\* prints "Recording interrupted" and returns 1
Interrupt ==
  /\ UNCHANGED auxVars
  /\ pc = "loop"
  /\ stream' = "closed"
  /\ outcome' = "KeyboardInterrupt"
  /\ exitReason' = "interrupt"
  /\ exitCode' = 1
  /\ pc' = "done"
  /\ UNCHANGED <<cfgVars, cbVars, ghostVars, now, wakeAt, nextFrameAt, wav,
                 wavExists>>

\* time passes up to the next instant at which something is due
Tick ==
  /\ UNCHANGED auxVars
  /\ pc = "loop"
  /\ now < wakeAt
  /\ (stream = "active" /\ backendLive) => now < nextFrameAt
  /\ now' = IF stream = "active" /\ backendLive
            THEN Min(wakeAt, nextFrameAt)
            ELSE wakeAt
  /\ UNCHANGED <<cfgVars, cbVars, ghostVars, pc, stream, wakeAt, nextFrameAt,
                 outcome, exitReason, wav, wavExists, exitCode>>

Next ==
  \/ OpenStream
  \/ Callback
  \/ Poll
  \/ WriteWav
  \/ Interrupt
  \/ Tick

Spec == Init /\ [][Next]_vars

SpecScenario == InitScenario /\ [][Next]_vars

\* the backend, the clock and the supervisor keep running; the user need
\* not interrupt
Fairness ==
  /\ WF_vars(OpenStream)
  /\ WF_vars(Callback)
  /\ WF_vars(Poll)
  /\ WF_vars(WriteWav)
  /\ WF_vars(Tick)

LiveSpec == Init /\ [][Next]_vars /\ Fairness

TypeOK ==
  /\ pc \in {"start", "loop", "write", "done"}
  /\ stream \in {"unopened", "active", "inactive", "closed"}
  /\ outcome \in {"none", "path", "capture_error", "no_audio",
                  "KeyboardInterrupt"}
  /\ exitReason \in {"none", "finished", "timeout", "inactive", "interrupt",
                     "open_failed"}
  /\ now \in Nat
  /\ silence_duration \in Nat
  /\ exitCode \in {-1, 1}

(* ---------------------------------------------------------------------- *)
(* Properties of the capture loop                                         *)
(* ---------------------------------------------------------------------- *)

\* blocks after which the scenario's trailing silence reaches the default
\* threshold: the speech blocks plus 1200ms of silence blocks
ScenarioFrames == ScenarioSpeechFrames + DefaultSilenceMs \div FrameMs

\* C1: with VAD enabled, the callback sets recording_finished, and the
\* supervisor leaves by it, only at or after the block at which the silence
\* fed since the most recent speech block first reaches silence_ms_to_stop,
\* and never before that block.
C1_StopNotBeforeThreshold ==
  (recording_finished \/ exitReason = "finished") =>
    /\ vad
    /\ speechFed
    /\ thresholdFrame >= 2
    /\ thresholdFrame <= finishedFrame
    /\ finishedFrame <= Len(frames)

\* the supervisor left by the silence path, one block after the threshold
\* block
C1_Witness ==
  /\ pc = "done"
  /\ exitReason = "finished"
  /\ outcome = "path"
  /\ finishedFrame = thresholdFrame + 1

\* C2 (as claimed): in the end-to-end scenario the stream halts at the
\* threshold block, so the serialized buffer holds 110 blocks, give or take
\* one, whatever the order of the callback and the supervisor.
C2_ScenarioBufferSize ==
  (scenario /\ outcome = "path") =>
    /\ Len(wav) >= ScenarioFrames - 1
    /\ Len(wav) <= ScenarioFrames + 1

\* C3 (as claimed): after an interrupt the buffered blocks are serialized
\* when there are any, and the capture fails with "No audio captured" when
\* there are none.
C3_InterruptKeepsBuffer ==
  (pc = "done" /\ exitReason = "interrupt") =>
    IF frames # <<>>
    THEN wavExists /\ wav = frames /\ outcome = "path"
    ELSE outcome = "no_audio"

\* C4: when no block is classified speech the stop flag is never set, and a
\* supervisor that leaves the loop (not interrupted) leaves it by the clock,
\* at an instant in [max_seconds, max_seconds + 100ms).
C4_NoSpeechRunsToMax ==
  ~speechFed =>
    /\ ~recording_finished
    /\ (pc \in {"write", "done"} /\ exitReason \notin {"interrupt", "open_failed"})
         => /\ exitReason = "timeout"
            /\ now >= MaxMs
            /\ now < MaxMs + PollMs

\* a VAD capture of silence blocks only that ran to the ceiling
C4_Witness ==
  /\ pc = "done"
  /\ vad
  /\ ~speechFed
  /\ lastCls = "silence"
  /\ exitReason = "timeout"
  /\ Len(wav) * FrameMs >= MaxMs - FrameMs

\* C5: while has_detected_speech is false, silence_duration is 0 and
\* recording_finished is false, however many silence blocks have arrived.
C5_LeadingSilenceIgnored ==
  ~has_detected_speech => (silence_duration = 0 /\ ~recording_finished)

\* many leading silence blocks, no speech yet
C5_Witness ==
  /\ vad
  /\ ~has_detected_speech
  /\ lastCls = "silence"
  /\ Len(frames) * FrameMs > silence_ms_to_stop

\* the values of the three cells after a callback that classifies the
\* current block as silence
AsSilence ==
  CallbackBody(silence_duration, has_detected_speech, recording_finished,
               "silence", silence_ms_to_stop, vad)

\* a callback whose classifier faulted has just run
FaultStep == frames' # frames /\ lastCls' = "fault"

\* C6 (as claimed): a classifier fault on a block does not stop capture and
\* leaves silence_duration and has_detected_speech as a silence
\* classification of that block would have left them.
C6_FaultEqualsSilence ==
  [][FaultStep =>
       /\ recording_finished' = recording_finished
       /\ stream' = stream
       /\ silence_duration' = AsSilence.sil
       /\ has_detected_speech' = AsSilence.has]_vars

\* C6 (amended): a classifier fault on a block does not stop capture and
\* leaves silence_duration, has_detected_speech and recording_finished as
\* they were before the block; that is what a silence classification would
\* have left exactly when no speech had been detected before the block,
\* otherwise the silence classification leaves one frame duration more.
C6_FaultSkipsBlock ==
  [][FaultStep =>
       /\ UNCHANGED <<silence_duration, has_detected_speech,
                      recording_finished, stream>>
       /\ AsSilence.has = has_detected_speech
       /\ AsSilence.sil =
            IF has_detected_speech
            THEN silence_duration + FrameMs
            ELSE silence_duration]_vars

\* a fault after speech and some silence, capture still running
C6_Witness ==
  /\ lastCls = "fault"
  /\ has_detected_speech
  /\ silence_duration > 0
  /\ ~recording_finished
  /\ stream = "active"

\* C7: no exception of the classifier leaves the callback or record_once:
\* the block of a faulting callback is appended, no exception leaves the
\* callback, the stream stays active, and record_once ends with a path, the
\* capture error or the no-audio error (or the user's interrupt).
C7_FaultsContained ==
  /\ [](/\ lastRaised = "none"
        /\ exitReason # "inactive"
        /\ pc = "done" =>
             outcome \in {"path", "capture_error", "no_audio",
                          "KeyboardInterrupt"}
        /\ (pc = "done" /\ exitReason \in {"timeout", "finished"}) =>
             outcome \in {"path", "no_audio"})
  /\ [][FaultStep =>
          /\ frames' = Append(frames, Len(frames) + 1)
          /\ stream' = "active"]_vars

\* a capture whose last block faulted and which returned a path holding
\* that block
C7_Witness ==
  /\ pc = "done"
  /\ lastCls = "fault"
  /\ outcome = "path"
  /\ wav = frames
  /\ exitReason = "timeout"
  /\ ~has_detected_speech

\* C8: when the supervisor closes the stream with an empty buffer, the
\* capture fails with "No audio captured", the command returns 1 and no file
\* exists at the path.
C8_ZeroFramesNoAudio ==
  (pc = "done" /\ frames = <<>> /\ exitReason \in {"timeout", "finished", "inactive"}) =>
    /\ outcome = "no_audio"
    /\ ~wavExists
    /\ wav = <<>>
    /\ exitCode = 1

\* the backend delivered nothing until the ceiling
C8_Witness ==
  /\ pc = "done"
  /\ frames = <<>>
  /\ exitReason = "timeout"
  /\ outcome = "no_audio"

\* C9: every capture ends, and the supervisor is never in its loop one
\* polling interval or more after max_seconds.
C9_CaptureTerminates ==
  /\ <>(pc = "done")
  /\ [](pc = "loop" => now < MaxMs + PollMs)
  /\ [](exitReason = "timeout" => now < MaxMs + PollMs)

\* speech up to the ceiling, ended by the clock
C9_Witness ==
  /\ pc = "done"
  /\ exitReason = "timeout"
  /\ lastCls = "speech"
  /\ silence_duration = 0
  /\ now >= MaxMs

\* C10: while the supervisor is in its loop, the stop flag has been set for
\* at most one polling interval, and once the flag is set the supervisor
\* never starts another sleep: its next poll leaves the loop.
C10_FlagObservedNextPoll ==
  /\ [](/\ (pc = "loop" /\ recording_finished) => now - finishedAt <= PollMs
        /\ exitReason = "finished" => now - finishedAt <= PollMs)
  /\ [][recording_finished => wakeAt' = wakeAt]_vars

\* the flag was set right after a poll and observed a full interval later
C10_Witness ==
  /\ exitReason = "finished"
  /\ now - finishedAt = PollMs

\* a callback has just run
CallbackStep == frames' # frames

\* C11: the stop flag is never cleared, not even by a later speech block; the
\* supervisor leaves its loop once, at the first poll at which the flag is
\* set or max_seconds has elapsed, and after it has left nothing changes the
\* buffer, the three cells, the stream or the reason of the stop.
C11_StoppedOnceAndTerminal ==
  /\ [][recording_finished => recording_finished']_vars
  /\ [][exitReason # "none" =>
          /\ exitReason' = exitReason
          /\ pc' \in {"write", "done"}
          /\ stream' = stream
          /\ UNCHANGED cbVars]_vars
  /\ [][(pc = "loop" /\ (recording_finished \/ now >= MaxMs)) =>
          wakeAt' = wakeAt]_vars
  /\ [](exitReason = "finished" => recording_finished /\ now < MaxMs)
  /\ [](exitReason = "timeout" => now >= MaxMs)

\* a speech block arrived after the flag was set, and the supervisor still
\* left by the flag
C11_Witness ==
  /\ exitReason = "finished"
  /\ lastCls = "speech"
  /\ silence_duration = 0
  /\ recording_finished
  /\ Len(frames) > finishedFrame

\* C12: with VAD disabled no block is classified, the three cells keep their
\* initial values, every delivered block is in the buffer, and a capture
\* whose stream opened ends only by the clock or by the user's interrupt.
C12_VadDisabledOnlyBuffers ==
  ~vad =>
    /\ silence_duration = 0
    /\ ~has_detected_speech
    /\ ~recording_finished
    /\ lastCls \in {"none", "skipped"}
    /\ stream # "unopened" => Len(frames) = nextFrameAt \div FrameMs - 1
    /\ exitReason \in {"none", "open_failed", "timeout", "interrupt"}

\* a capture without VAD that ran to the ceiling and wrote its blocks
C12_Witness ==
  /\ ~vad
  /\ pc = "done"
  /\ exitReason = "timeout"
  /\ outcome = "path"
  /\ lastCls = "skipped"
  /\ Len(wav) * FrameMs >= MaxMs - FrameMs

\* C13: when the stream cannot be opened, the capture fails with the capture
\* error and the command returns 1; the stream is never opened afterwards
\* (there is no second attempt), no block is buffered and no file is written.
C13_OpenFailureIsTerminal ==
  /\ [](exitReason = "open_failed" =>
          /\ pc = "done"
          /\ outcome = "capture_error"
          /\ exitCode = 1
          /\ stream = "unopened"
          /\ frames = <<>>
          /\ ~wavExists
          /\ wav = <<>>)
  /\ [][pc # "start" => pc' # "start"]_vars

\* the open failed
C13_Witness ==
  /\ exitReason = "open_failed"
  /\ outcome = "capture_error"
  /\ pc = "done"

\* C20 (as claimed): in every callback silence_duration stays the same, is
\* reset to 0 exactly when the block is classified speech, or grows by one
\* frame duration exactly when has_detected_speech was true, the block is
\* classified silence and the stop flag was not yet set.
C20_SilenceStepRelation ==
  [][CallbackStep =>
       /\ \/ silence_duration' = silence_duration
          \/ silence_duration' = 0
          \/ silence_duration' = silence_duration + FrameMs
       /\ (vad /\ lastCls' = "speech") => silence_duration' = 0
       /\ (silence_duration' = 0 /\ silence_duration # 0) =>
            lastCls' = "speech"
       /\ (silence_duration' = silence_duration + FrameMs) <=>
            (/\ has_detected_speech
             /\ lastCls' = "silence"
             /\ ~recording_finished)]_vars

\* C21: silence_duration, has_detected_speech and recording_finished change
\* only in a step of the callback, taken while the supervisor is in its
\* loop and the stream is active; once the supervisor has left the with
\* block the stream is not active and the frame buffer does not change, and
\* the buffer is concatenated and written only with the stream closed.
C21_CallbackOnlyWriter ==
  [][/\ (<<silence_duration, has_detected_speech, recording_finished>>'
           # <<silence_duration, has_detected_speech, recording_finished>>)
          => (/\ Len(frames') = Len(frames) + 1
              /\ pc = "loop" /\ pc' = "loop"
              /\ stream = "active")
     /\ pc \in {"write", "done"} => (frames' = frames /\ stream # "active")
     /\ (pc = "write" /\ pc' = "done") => (stream = "closed" /\ stream' = "closed")
    ]_vars

\* the callback set the stop flag, the supervisor closed the stream and
\* then wrote the buffer
C21_Witness ==
  /\ pc = "done"
  /\ outcome = "path"
  /\ recording_finished
  /\ has_detected_speech
  /\ silence_duration > 0
  /\ stream = "closed"
  /\ wav = frames

\* C22: the buffer holds one entry for each block the backend delivered, in
\* the order of delivery; every callback appends its block, whatever the
\* classification and whether or not VAD is enabled; the file written holds
\* the whole buffer in that order, the blocks of the trailing silence up to
\* and after the one that set the stop flag included.
C22_BufferWholeAndOrdered ==
  /\ [](/\ frames = [i \in 1..Len(frames) |-> i]
        /\ stream # "unopened" => Len(frames) = (nextFrameAt \div FrameMs) - 1
        /\ wavExists => (wav = frames /\ pc = "done")
        /\ (wavExists /\ recording_finished) => Len(wav) >= finishedFrame)
  /\ [][nextFrameAt' # nextFrameAt /\ stream = "active"
          => frames' = Append(frames, Len(frames) + 1)]_vars

\* a file written after the stop flag was set, with blocks of all three
\* kinds of classification and blocks delivered after the one that set the
\* flag
C22_Witness ==
  /\ outcome = "path"
  /\ exitReason = "finished"
  /\ wav = frames
  /\ finishedFrame > 0
  /\ Len(wav) > finishedFrame
  /\ trailing >= silence_ms_to_stop

(* ---------------------------------------------------------------------- *)
(* The PCM encoder: _float_to_pcm16                                       *)
(* ---------------------------------------------------------------------- *)

\* a sample is the float n / SampleDen, for n in -MaxSampleNum..MaxSampleNum;
\* with SampleDen a power of two the float32 products are exact
SampleDen == 4
MaxSampleNum == 8

\* longest array of samples the model draws
MaxSamples == 2

\* data * 32767.0
PcmScale == 32767

\* mutant: the samples are not clipped
ClipNone(x, lo, hi) == x

\* array_module.clip(data, -1.0, 1.0), for one sample
Clip(x, lo, hi) == IF x < lo THEN lo ELSE IF x > hi THEN hi ELSE x

\* the integer part of a / b, rounded toward zero as astype does
TruncDiv(a, b) == IF a >= 0 THEN a \div b ELSE -((-a) \div b)

\* astype(int16) of an integral value: values outside the 16-bit range wrap
AsInt16(v) == ((v + 32768) % 65536) - 32768

\* tobytes() of one int16: two bytes, low byte first
ToBytes(v) == LET u == v % 65536 IN <<u % 256, u \div 256>>

\* _float_to_pcm16(data), for one sample
EncodeSample(x) ==
  ToBytes(AsInt16(TruncDiv(Clip(x, -SampleDen, SampleDen) * PcmScale,
                           SampleDen)))

\* _float_to_pcm16(data)
FloatToPcm16(d) ==
  [k \in 1..(2 * Len(d)) |-> EncodeSample(d[(k + 1) \div 2])[((k - 1) % 2) + 1]]

InitPcm ==
  /\ CaptureIdle
  /\ OnceIdle
  /\ ConfIdle
  /\ \E n \in 0..MaxSamples :
       samples \in [1..n -> (-MaxSampleNum)..MaxSampleNum]
  /\ pcm = <<>>
  /\ pcmDone = FALSE

\* one call of _float_to_pcm16
Encode ==
  /\ ~pcmDone
  /\ pcm' = FloatToPcm16(samples)
  /\ pcmDone' = TRUE
  /\ UNCHANGED <<samples, notPcmVars>>

NextPcm == Encode

SpecPcm == InitPcm /\ [][NextPcm]_vars

\* the 16-bit signed value of the i-th byte pair of pcm
Int16At(i) ==
  LET u == pcm[2 * i - 1] + 256 * pcm[2 * i]
  IN  IF u >= 32768 THEN u - 65536 ELSE u

\* C15: the encoder returns two bytes per sample; a sample at or above 1.0
\* encodes to 32767 and a sample at or below -1.0 to -32767, so 1.5 encodes
\* as 1.0 and -2.0 as -1.0; a sample in between encodes to its product with
\* 32767 rounded toward zero, with the sign of the sample (no wrap-around).
C15_ClipBeforeScale ==
  pcmDone =>
    /\ Len(pcm) = 2 * Len(samples)
    /\ \A k \in 1..Len(pcm) : pcm[k] \in 0..255
    /\ \A i \in 1..Len(samples) :
         LET n == samples[i]
             v == Int16At(i)
         IN  /\ n >= SampleDen => v = 32767
             /\ n <= -SampleDen => v = -32767
             /\ v * n >= 0
             /\ (-SampleDen < n /\ n < SampleDen) =>
                  /\ v * SampleDen - n * 32767 < SampleDen
                  /\ n * 32767 - v * SampleDen < SampleDen

\* a sample above 1.0 and a sample below -1.0 were encoded
C15_Witness ==
  /\ pcmDone
  /\ Len(samples) = 2
  /\ samples[1] > SampleDen
  /\ samples[2] < -SampleDen
  /\ pcm = <<255, 127, 1, 128>>

(* ---------------------------------------------------------------------- *)
(* The `once` command: main, _command_once, _transcribe_file and          *)
(* ChutesClient._post_with_retries                                        *)
(* ---------------------------------------------------------------------- *)

\* largest chutes.max_retries the model draws
MaxRetries == 5

\* cap of the back-off: min(2 ** attempt, 8)
SleepCap == 8

\* how record_once can end, as the capture loop above ends: with a path, with
\* AudioError (open failure or no audio), or with the user's interrupt
RecordOutcomes == {"path", "AudioError", "KeyboardInterrupt"}

\* what one session.post and the checks on its response can come to: a JSON
\* list, an HTTP error status, an exception of requests, a body that json()
\* cannot parse, a JSON value that is not a list
AttemptKinds == {"ok", "http_error", "request_exception", "bad_json", "not_list"}

\* the exception an attempt raises inside the try
ExceptionOf(kind) ==
  CASE kind = "http_error" -> "ChutesAPIError"
    [] kind = "request_exception" -> "RequestException"
    [] kind = "bad_json" -> "ValueError"
    [] kind = "not_list" -> "ChutesAPIError"
    [] OTHER -> "none"

\* mutant: `except (requests.RequestException, ChutesAPIError)`
RetryCatchesNoValueError(exc) == exc \in {"RequestException", "ChutesAPIError"}

\* `except (requests.RequestException, ChutesAPIError, ValueError)`
RetryCatches(exc) == exc \in {"RequestException", "ChutesAPIError", "ValueError"}

\* retries = max(self.config.max_retries, 1)
Retries(m) == IF m >= 1 THEN m ELSE 1

RECURSIVE Pow2(_)
Pow2(n) == IF n <= 0 THEN 1 ELSE 2 * Pow2(n - 1)

\* mutant: the back-off is not capped
BackoffUncapped(attempt) == Pow2(attempt)

\* min(2 ** attempt, 8)
Backoff(attempt) == Min(Pow2(attempt), SleepCap)

\* mutant: a missing VAD library fails the constructor with VAD disabled too
ConstructorFailsVadAlways(miss, vadOn) ==
  miss \in {"numpy", "sounddevice", "webrtcvad"}

\* Recorder.__init__ raises AudioError
ConstructorFails(miss, vadOn) ==
  \/ miss \in {"numpy", "sounddevice"}
  \/ (vadOn /\ miss = "webrtcvad")

InitOnce ==
  /\ CaptureIdle
  /\ PcmIdle
  /\ ConfIdle
  /\ no_vad \in BOOLEAN
  /\ cfg_vad \in BOOLEAN
  /\ vad_enabled = cfg_vad
  /\ missing \in {"none", "numpy", "sounddevice", "webrtcvad"}
  /\ auto \in BOOLEAN
  /\ auto_copy \in BOOLEAN
  /\ clip_enabled \in BOOLEAN
  /\ max_retries \in 0..MaxRetries
  /\ opc = "construct"
  /\ recorded = "none"
  /\ tempFile = FALSE
  /\ attempts = <<>>
  /\ sleeps = <<>>
  /\ apiResult = "none"
  /\ rendered = FALSE
  /\ copied = FALSE
  /\ raised = "none"
  /\ message = "none"
  /\ ret = -1

\* an exception leaves _command_once: main prints a message and returns 1
MainCatches(exc, msg) ==
  /\ raised' = exc
  /\ message' = msg
  /\ ret' = 1
  /\ opc' = "returned"

\* mutant: the Recorder is constructed with vad.enabled as it was loaded
OnceConstructKeepsConfig ==
  /\ opc = "construct"
  /\ IF ConstructorFails(missing, vad_enabled)
     THEN MainCatches("AudioError", "dependency is not installed")
     ELSE /\ opc' = "record"
          /\ UNCHANGED <<raised, message, ret>>
  /\ UNCHANGED <<onceCfgVars, vad_enabled, recorded, tempFile, attempts,
                 sleeps, apiResult, rendered, copied, notOnceVars>>

\* _command_once up to the Recorder: config.vad.enabled is overwritten from
\* --no-vad and the Recorder is constructed
OnceConstruct ==
  /\ opc = "construct"
  /\ vad_enabled' = ~no_vad
  /\ IF ConstructorFails(missing, ~no_vad)
     THEN MainCatches("AudioError", "dependency is not installed")
     ELSE /\ opc' = "record"
          /\ UNCHANGED <<raised, message, ret>>
  /\ UNCHANGED <<onceCfgVars, recorded, tempFile, attempts, sleeps, apiResult,
                 rendered, copied, notOnceVars>>

\* recorder.record_once(...) and its two except clauses in _command_once
OnceRecord ==
  /\ opc = "record"
  /\ \E o \in RecordOutcomes :
       /\ recorded' = o
       /\ IF o = "path"
          THEN /\ tempFile' = TRUE
               /\ opc' = "post"
               /\ UNCHANGED <<message, ret>>
          ELSE /\ message' = IF o = "KeyboardInterrupt"
                             THEN "Recording interrupted"
                             ELSE "Recording failed"
               /\ ret' = 1
               /\ opc' = "returned"
               /\ UNCHANGED tempFile
  /\ UNCHANGED <<onceCfgVars, vad_enabled, attempts, sleeps, apiResult,
                 rendered, copied, raised, notOnceVars>>

\* one iteration of the for loop of _post_with_retries: the post, the checks
\* on the response, and the sleep or the final raise, which _transcribe_file
\* re-raises to main
OncePost ==
  /\ opc = "post"
  /\ \E res \in AttemptKinds :
       LET attempt == Len(attempts) + 1
           exc == ExceptionOf(res)
       IN  /\ attempts' = Append(attempts, res)
           /\ IF res = "ok"
              THEN /\ apiResult' = "data"
                   /\ opc' = "render"
                   /\ UNCHANGED <<sleeps, raised, message, ret>>
              ELSE IF ~RetryCatches(exc)
              THEN /\ apiResult' = exc
                   /\ MainCatches(exc, "Unexpected error")
                   /\ UNCHANGED sleeps
              ELSE IF attempt >= Retries(max_retries)
              THEN /\ apiResult' = "ChutesAPIError"
                   /\ MainCatches("ChutesAPIError", "Failed to contact Chutes API")
                   /\ UNCHANGED sleeps
              ELSE /\ sleeps' = Append(sleeps, Backoff(attempt))
                   /\ UNCHANGED <<apiResult, opc, raised, message, ret>>
  /\ UNCHANGED <<onceCfgVars, vad_enabled, recorded, tempFile, rendered,
                 copied, notOnceVars>>

\* _parse_response, which fails on items that are not objects, and
\* render_transcription
OnceRender ==
  /\ opc = "render"
  /\ \E ok \in BOOLEAN :
       IF ok
       THEN /\ rendered' = TRUE
            /\ opc' = "copy"
            /\ UNCHANGED <<raised, message, ret>>
       ELSE /\ MainCatches("Exception", "Unexpected error")
            /\ UNCHANGED rendered
  /\ UNCHANGED <<onceCfgVars, vad_enabled, recorded, tempFile, attempts,
                 sleeps, apiResult, copied, notOnceVars>>

\* `if args.auto or config.ui.auto_copy: copy_to_clipboard(...)`; the
\* clipboard command can be missing or fail, which raises UIError
OnceCopy ==
  /\ opc = "copy"
  /\ IF (auto \/ auto_copy) /\ clip_enabled
     THEN \E ok \in BOOLEAN :
            IF ok
            THEN /\ copied' = TRUE
                 /\ opc' = "cleanup"
                 /\ UNCHANGED <<raised, message, ret>>
            ELSE /\ MainCatches("UIError", "Unexpected error")
                 /\ UNCHANGED copied
     ELSE /\ opc' = "cleanup"
          /\ UNCHANGED <<copied, raised, message, ret>>
  /\ UNCHANGED <<onceCfgVars, vad_enabled, recorded, tempFile, attempts,
                 sleeps, apiResult, rendered, notOnceVars>>

\* file_path.unlink(missing_ok=True), whose failure is ignored, and return 0
OnceCleanup ==
  /\ opc = "cleanup"
  /\ \E ok \in BOOLEAN : tempFile' = ~ok
  /\ ret' = 0
  /\ opc' = "returned"
  /\ UNCHANGED <<onceCfgVars, vad_enabled, recorded, attempts, sleeps,
                 apiResult, rendered, copied, raised, message, notOnceVars>>

NextOnce ==
  \/ OnceConstruct
  \/ OnceRecord
  \/ OncePost
  \/ OnceRender
  \/ OnceCopy
  \/ OnceCleanup

SpecOnce == InitOnce /\ [][NextOnce]_vars

\* the set of the elements of a sequence
Range(seq) == {seq[i] : i \in 1..Len(seq)}

\* C14 (as claimed): whenever the `once` command returns non-zero, a message
\* was printed and no transcript has been rendered or copied.
C14_NoPartialOutput ==
  (ret # -1 /\ ret # 0) =>
    /\ message # "none"
    /\ ~rendered
    /\ ~copied

\* C16: when every attempt failed, _post_with_retries has made exactly
\* max(max_retries, 1) posts and raised ChutesAPIError; it raises nothing
\* else, raises only after that many failures, and returns data only from an
\* attempt that succeeded.
C16_AllFailuresRaiseApiError ==
  /\ apiResult \in {"none", "data", "ChutesAPIError"}
  /\ (apiResult # "none" /\ "ok" \notin Range(attempts)) =>
       /\ apiResult = "ChutesAPIError"
       /\ Len(attempts) = (IF max_retries > 1 THEN max_retries ELSE 1)
       /\ raised = "ChutesAPIError"
       /\ ret = 1
  /\ (apiResult = "none" /\ opc = "post") =>
       Len(attempts) < (IF max_retries > 1 THEN max_retries ELSE 1)
  /\ apiResult = "data" => attempts[Len(attempts)] = "ok"

\* three failures of different kinds with max_retries = 3
C16_Witness ==
  /\ max_retries = 3
  /\ attempts = <<"bad_json", "request_exception", "http_error">>
  /\ apiResult = "ChutesAPIError"
  /\ opc = "returned"

\* the command returned from the constructor of the Recorder: record_once
\* was never called
ConstructorFailed == opc = "returned" /\ recorded = "none"

\* C23: once the constructor has run, it has failed exactly when numpy or
\* sounddevice is missing, or webrtcvad is missing and VAD is enabled; a
\* failure is an AudioError reported by main with exit code 1, and nothing
\* was recorded, written or posted; with VAD disabled a missing webrtcvad
\* is no failure.
C23_MissingCapabilityAtConstruction ==
  opc # "construct" =>
    /\ ConstructorFailed <=>
         (\/ missing \in {"numpy", "sounddevice"}
          \/ (vad_enabled /\ missing = "webrtcvad"))
    /\ ConstructorFailed =>
         /\ raised = "AudioError"
         /\ ret = 1
         /\ ~tempFile
         /\ attempts = <<>>
    /\ (~vad_enabled /\ missing = "webrtcvad") => ~ConstructorFailed

\* webrtcvad is missing and VAD is enabled: the command returned 1 from the
\* constructor
C23_Witness ==
  /\ missing = "webrtcvad"
  /\ vad_enabled
  /\ ConstructorFailed
  /\ raised = "AudioError"
  /\ ret = 1

\* seconds slept after failed attempt k
ExpectedSleep(k) == IF k = 1 THEN 2 ELSE IF k = 2 THEN 4 ELSE 8

\* C24: only the last post can have succeeded; the sleep after failed
\* attempt k is min(2^k, 8) seconds; while the loop runs every failed
\* attempt was followed by a sleep; once _post_with_retries has returned or
\* raised, its last attempt was not followed by a sleep, and there is no
\* further post and no further sleep.
C24_BackoffAndImmediateReturn ==
  /\ [](/\ \A k \in 1..Len(sleeps) : sleeps[k] = ExpectedSleep(k)
        /\ \A i \in 1..(Len(attempts) - 1) : attempts[i] # "ok"
        /\ apiResult = "none" => Len(sleeps) = Len(attempts)
        /\ apiResult # "none" => Len(sleeps) = Len(attempts) - 1)
  /\ [][apiResult # "none" =>
          (attempts' = attempts /\ sleeps' = sleeps)]_vars

\* four failures, sleeps of 2, 4, 8 and 8 seconds, then a success that
\* returned at once
C24_Witness ==
  /\ Len(attempts) = 5
  /\ attempts[5] = "ok"
  /\ sleeps = <<2, 4, 8, 8>>
  /\ apiResult = "data"
  /\ opc = "returned"

\* C25: once _command_once has constructed the Recorder, config.vad.enabled
\* is the negation of --no-vad, whatever load_config returned; with
\* webrtcvad missing the constructor failed exactly when --no-vad was not
\* given.
C25_VadFollowsFlag ==
  opc # "construct" =>
    /\ vad_enabled = ~no_vad
    /\ missing = "webrtcvad" => (ConstructorFailed <=> ~no_vad)

\* the loaded config disabled VAD, --no-vad was not given, and the Recorder
\* was constructed with VAD enabled
C25_Witness ==
  /\ opc = "record"
  /\ ~cfg_vad
  /\ ~no_vad
  /\ vad_enabled

\* C26 (as claimed): when the command has returned after record_once gave a
\* path, the recorded file does not exist.
C26_TempFileDeleted ==
  (opc = "returned" /\ recorded = "path") => ~tempFile

(* ---------------------------------------------------------------------- *)
(* Configuration: _coerce, load_config, set_config_value, ensure_config   *)
(* ---------------------------------------------------------------------- *)

\* A string value is a sequence of characters.  A typed value is a record
\* with its Python type t and its value v; a float is kept as the integer
\* num over the power of ten den.  A name with underscores is the sequence
\* of its words: timeout_seconds is <<"timeout", "seconds">>.

S60 == <<"6", "0">>
SPad5 == <<" ", "5", " ">>
SAbc == <<"a", "b", "c">>
SYes == <<"Y", "e", "s">>
S2p5 == <<"2", ".", "5">>

\* the strings the model passes as environment and command-line values
ValueStrings == {S60, SPad5, SAbc, SYes, S2p5}

Digits == {"0", "1", "2", "3", "4", "5", "6", "7", "8", "9"}

DigitVal(c) ==
  CASE c = "0" -> 0 [] c = "1" -> 1 [] c = "2" -> 2 [] c = "3" -> 3
    [] c = "4" -> 4 [] c = "5" -> 5 [] c = "6" -> 6 [] c = "7" -> 7
    [] c = "8" -> 8 [] c = "9" -> 9

\* str.lower(), for the letters the model uses
LowerChar(c) ==
  CASE c = "Y" -> "y" [] c = "T" -> "t" [] c = "O" -> "o" [] OTHER -> c

Lower(str) == [i \in 1..Len(str) |-> LowerChar(str[i])]

RECURSIVE StripLeft(_)
StripLeft(str) ==
  IF str # <<>> /\ Head(str) = " " THEN StripLeft(Tail(str)) ELSE str

RECURSIVE StripRight(_)
StripRight(str) ==
  IF str # <<>> /\ str[Len(str)] = " "
  THEN StripRight(SubSeq(str, 1, Len(str) - 1))
  ELSE str

\* str.strip()
Strip(str) == StripRight(StripLeft(str))

\* the number written by a sequence of digits
RECURSIVE DigitsValue(_)
DigitsValue(ds) ==
  IF ds = <<>> THEN 0
  ELSE 10 * DigitsValue(SubSeq(ds, 1, Len(ds) - 1)) + DigitVal(ds[Len(ds)])

AllDigits(ds) == \A i \in 1..Len(ds) : ds[i] \in Digits

\* a string without its sign, and the sign
Unsigned(str) ==
  IF str # <<>> /\ Head(str) \in {"-", "+"} THEN Tail(str) ELSE str
SignOf(str) == IF str # <<>> /\ Head(str) = "-" THEN -1 ELSE 1

\* a conversion raised ValueError
ValueErr == [t |-> "ValueError", v |-> <<>>]

\* _bool(value) for a string
ParseBool(str) ==
  LET w == Lower(Strip(str))
  IN  IF w \in {<<"1">>, <<"t", "r", "u", "e">>, <<"y", "e", "s">>, <<"o", "n">>}
      THEN [t |-> "bool", v |-> TRUE]
      ELSE IF w \in {<<"0">>, <<"f", "a", "l", "s", "e">>, <<"n", "o">>,
                     <<"o", "f", "f">>}
      THEN [t |-> "bool", v |-> FALSE]
      ELSE ValueErr

\* int(value) for a string: surrounding blanks and a sign are accepted
ParseInt(str) ==
  LET w == Strip(str)
      u == Unsigned(w)
  IN  IF u # <<>> /\ AllDigits(u)
      THEN [t |-> "int", v |-> SignOf(w) * DigitsValue(u)]
      ELSE ValueErr

\* position of the first "." of a string, 0 if there is none
RECURSIVE DotAt(_, _)
DotAt(str, i) ==
  IF i > Len(str) THEN 0 ELSE IF str[i] = "." THEN i ELSE DotAt(str, i + 1)

RECURSIVE Pow10(_)
Pow10(n) == IF n <= 0 THEN 1 ELSE 10 * Pow10(n - 1)

\* float(value) for a string in decimal notation without exponent
ParseFloat(str) ==
  LET w == Strip(str)
      u == Unsigned(w)
      k == DotAt(u, 1)
      ip == IF k = 0 THEN u ELSE SubSeq(u, 1, k - 1)
      fp == IF k = 0 THEN <<>> ELSE SubSeq(u, k + 1, Len(u))
  IN  IF AllDigits(ip) /\ AllDigits(fp) /\ Len(ip) + Len(fp) > 0
      THEN [t |-> "float",
            v |-> [num |-> SignOf(w) * DigitsValue(ip \o fp),
                   den |-> Pow10(Len(fp))]]
      ELSE ValueErr

\* _coerce(value, target): bool is tested before int
Coerce(value, target) ==
  IF target.t = "bool" THEN ParseBool(value)
  ELSE IF target.t = "int" THEN ParseInt(value)
  ELSE IF target.t = "float" THEN ParseFloat(value)
  ELSE [t |-> "str", v |-> value]

\* bound of the model: number of variables in the environment
MaxEnvVars == 1

\* bound of the model: number of configuration operations in a run
MaxConfOps == 2

\* ChutesConfig.timeout_seconds
DefaultTimeoutSeconds == 30

\* the options the model follows, each as <<section, words of the option>>:
\* an int, a str and a bool, in two sections
OptTimeout == <<"chutes", <<"timeout", "seconds">>>>
OptApiKey == <<"chutes", <<"api", "key">>>>
OptVadEnabled == <<"vad", <<"enabled">>>>
Options == {OptTimeout, OptApiKey, OptVadEnabled}

\* _default_config_dict()
DefaultConfigDict ==
  [o \in Options |->
     CASE o = OptTimeout -> [t |-> "int", v |-> DefaultTimeoutSeconds]
       [] o = OptApiKey -> [t |-> "str", v |-> <<>>]
       [] o = OptVadEnabled -> [t |-> "bool", v |-> TRUE]]

\* values a user's file gives to an option: TOML keeps the type written
FileValuesOf(o) ==
  CASE o = OptTimeout -> {[t |-> "int", v |-> 10],
                          [t |-> "float", v |-> [num |-> 25, den |-> 10]]}
    [] o = OptApiKey -> {[t |-> "str", v |-> SAbc]}
    [] o = OptVadEnabled -> {[t |-> "bool", v |-> FALSE]}

\* contents of a user's file: any of the options, each with one of its values
FileContents ==
  UNION {{f \in [D -> UNION {FileValuesOf(o) : o \in D}] :
            \A o \in D : f[o] \in FileValuesOf(o)} : D \in SUBSET Options}

\* ENV_PREFIX
EnvPrefix == "OMNIVOCAL"

\* names of environment variables, each as its words between underscores
EnvNames ==
  {<<"OMNIVOCAL", "CHUTES", "TIMEOUT", "SECONDS">>,
   <<"OMNIVOCAL", "CHUTES", "API", "KEY">>,
   <<"OMNIVOCAL", "VAD", "ENABLED">>,
   <<"OMNIVOCAL", "CONFIG", "DIR">>,
   <<"OMNIVOCAL", "VAD">>,
   <<"omnivocal", "VAD", "ENABLED">>}

\* str.lower() of a word of a name
LowerWord(w) ==
  CASE w = "OMNIVOCAL" -> "omnivocal" [] w = "CHUTES" -> "chutes"
    [] w = "TIMEOUT" -> "timeout" [] w = "SECONDS" -> "seconds"
    [] w = "API" -> "api" [] w = "KEY" -> "key" [] w = "VAD" -> "vad"
    [] w = "ENABLED" -> "enabled" [] w = "CONFIG" -> "config"
    [] w = "DIR" -> "dir" [] OTHER -> w

\* env_key[len(prefix):].lower().split("_"), <<>> if the name does not
\* start with the prefix
EnvPath(name) ==
  IF Len(name) < 2 \/ Head(name) # EnvPrefix THEN <<>>
  ELSE [i \in 1..(Len(name) - 1) |-> LowerWord(name[i + 1])]

\* _merge_dicts(defaults, overrides)
MergeDicts(defaults, overrides) ==
  [o \in (DOMAIN defaults) \cup (DOMAIN overrides) |->
     IF o \in DOMAIN overrides THEN overrides[o] ELSE defaults[o]]

\* mutant: the raw string of the variable is stored
EnvOverrideNoCoerce(cfg, name, value) ==
  LET path == EnvPath(name)
      o == <<path[1], Tail(path)>>
  IN  IF Len(path) < 2 THEN cfg
      ELSE IF o \notin DOMAIN cfg THEN cfg
      ELSE [cfg EXCEPT ![o] = [t |-> "str", v |-> value]]

\* one turn of the loop of _apply_env_overrides: a variable that names no
\* option (KeyError) or whose value cannot be coerced (ValueError) is
\* skipped
EnvOverride(cfg, name, value) ==
  LET path == EnvPath(name)
      o == <<path[1], Tail(path)>>
  IN  IF Len(path) < 2 THEN cfg
      ELSE IF o \notin DOMAIN cfg THEN cfg
      ELSE IF Coerce(value, cfg[o]).t = "ValueError" THEN cfg
      ELSE [cfg EXCEPT ![o] = Coerce(value, cfg[o])]

\* _apply_env_overrides(config) over the variables names of environment e
RECURSIVE ApplyEnvOverrides(_, _, _)
ApplyEnvOverrides(cfg, e, names) ==
  IF names = {} THEN cfg
  ELSE LET n == CHOOSE x \in names : TRUE
       IN  ApplyEnvOverrides(EnvOverride(cfg, n, e[n]), e, names \ {n})

\* mutant: the defaults are written over the file that exists
EnsureFileAlwaysDefaults(exists, content) == DefaultConfigDict

\* contents of the file after ensure_config
EnsureFile(exists, content) == IF exists THEN content ELSE DefaultConfigDict

\* load_config(): what OmnivocalConfig.from_dict receives
LoadConfig(exists, content, e) ==
  ApplyEnvOverrides(MergeDicts(DefaultConfigDict, EnsureFile(exists, content)),
                    e, DOMAIN e)

\* a key of `config set` is the sequence of its words and of its "."
\* separators; the key of an option is section.option
KeyOf(o) == <<o[1], ".">> \o o[2]

\* the keys the model passes: the three options, a key without separator,
\* a key with an empty section, an unknown option
Keys ==
  {KeyOf(o) : o \in Options}
    \cup {<<"chutes", "timeout", "seconds">>,
          <<".", "enabled">>,
          <<"vad", ".", "nope">>}

\* _split_key(key): ValueError without a "." or with an empty side
SplitKey(key) ==
  LET k == DotAt(key, 1)
      section == SubSeq(key, 1, k - 1)
      option == SubSeq(key, k + 1, Len(key))
  IN  IF k = 0 \/ section = <<>> \/ option = <<>>
      THEN [err |-> "ValueError", section |-> <<>>, option |-> <<>>]
      ELSE [err |-> "none", section |-> section, option |-> option]

\* the options a section.option pair names: getattr finds it or raises
OptionsNamed(section, option) ==
  {o \in Options : <<o[1]>> = section /\ o[2] = option}

\* mutant: a value that cannot be coerced is stored as it was given
SetConfigValueStoresRaw(cfg, key, value) ==
  LET sp == SplitKey(key)
      named == OptionsNamed(sp.section, sp.option)
      o == CHOOSE x \in named : TRUE
      c == Coerce(value, cfg[o])
  IN  IF sp.err # "none" THEN [config |-> cfg, err |-> "ValueError"]
      ELSE IF named = {} THEN [config |-> cfg, err |-> "AttributeError"]
      ELSE IF c.t = "ValueError"
      THEN [config |-> [cfg EXCEPT ![o] = [t |-> "str", v |-> value]],
            err |-> "ValueError"]
      ELSE [config |-> [cfg EXCEPT ![o] = c], err |-> "none"]

\* set_config_value(config, key, value): the config it leaves and the
\* exception it raises
SetConfigValue(cfg, key, value) ==
  LET sp == SplitKey(key)
      named == OptionsNamed(sp.section, sp.option)
      o == CHOOSE x \in named : TRUE
      c == Coerce(value, cfg[o])
  IN  IF sp.err # "none" THEN [config |-> cfg, err |-> "ValueError"]
      ELSE IF named = {} THEN [config |-> cfg, err |-> "AttributeError"]
      ELSE IF c.t = "ValueError" THEN [config |-> cfg, err |-> "ValueError"]
      ELSE [config |-> [cfg EXCEPT ![o] = c], err |-> "none"]

\* a configuration operation that takes no argument has run
OpDone(name) == [op |-> name, key |-> <<>>, value |-> <<>>]

\* any file, or none, and an environment of at most MaxEnvVars variables
InitConf ==
  /\ CaptureIdle
  /\ PcmIdle
  /\ OnceIdle
  /\ fileExists \in BOOLEAN
  /\ dirExists \in BOOLEAN
  /\ fileExists => dirExists
  /\ file \in (IF fileExists THEN FileContents ELSE {<<>>})
  /\ \E names \in SUBSET EnvNames :
       /\ Cardinality(names) <= MaxEnvVars
       /\ env \in [names -> ValueStrings]
  /\ config = <<>>
  /\ confOp = OpDone("none")
  /\ confErr = "none"
  /\ confSteps = 0

\* main: config = load_config()
ConfLoad ==
  /\ confSteps < MaxConfOps
  /\ dirExists' = TRUE
  /\ fileExists' = TRUE
  /\ file' = EnsureFile(fileExists, file)
  /\ config' = LoadConfig(fileExists, file, env)
  /\ confOp' = OpDone("load")
  /\ confErr' = "none"
  /\ confSteps' = confSteps + 1
  /\ UNCHANGED <<env, notConfVars>>

\* `config path`: ensure_config()
ConfEnsure ==
  /\ confSteps < MaxConfOps
  /\ dirExists' = TRUE
  /\ fileExists' = TRUE
  /\ file' = EnsureFile(fileExists, file)
  /\ confOp' = OpDone("ensure")
  /\ confErr' = "none"
  /\ confSteps' = confSteps + 1
  /\ UNCHANGED <<env, config, notConfVars>>

\* `config set key value` on the loaded config: set_config_value, then
\* save_config unless an exception was raised
ConfSet ==
  /\ confSteps < MaxConfOps
  /\ config # <<>>
  /\ \E key \in Keys, value \in ValueStrings :
       LET r == SetConfigValue(config, key, value)
       IN  /\ config' = r.config
           /\ confErr' = r.err
           /\ file' = (IF r.err = "none" THEN r.config ELSE file)
           /\ confOp' = [op |-> "set", key |-> key, value |-> value]
  /\ confSteps' = confSteps + 1
  /\ UNCHANGED <<fileExists, dirExists, env, notConfVars>>

NextConf == ConfLoad \/ ConfEnsure \/ ConfSet

SpecConf == InitConf /\ [][NextConf]_vars

\* the variable OMNIVOCAL_<SECTION>_<OPTION> of an option
EnvNameOf(o) ==
  CASE o = OptTimeout -> <<"OMNIVOCAL", "CHUTES", "TIMEOUT", "SECONDS">>
    [] o = OptApiKey -> <<"OMNIVOCAL", "CHUTES", "API", "KEY">>
    [] o = OptVadEnabled -> <<"OMNIVOCAL", "VAD", "ENABLED">>

\* the value the file gives to an option, or failing it the default
FileOrDefault(o) ==
  IF o \in DOMAIN file THEN file[o] ELSE DefaultConfigDict[o]

\* C17 as stated: after load_config every option whose variable is set
\* has the variable's value coerced to the type of the file-or-default value,
\* and every other option has the file value, or failing it the default.
C17_EnvAlwaysOverrides ==
  confOp.op = "load" =>
    \A o \in Options :
      config[o] = (IF EnvNameOf(o) \in DOMAIN env
                   THEN Coerce(env[EnvNameOf(o)], FileOrDefault(o))
                   ELSE FileOrDefault(o))

\* C17: after load_config every option whose variable is set to a value
\* that can be coerced to the type of the file-or-default value has that
\* coerced value; every other option, one whose variable holds a value that
\* cannot be coerced included, has the file value, or failing it the default.
C17_EnvOverFileOverDefault ==
  confOp.op = "load" =>
    \A o \in Options :
      config[o] =
        (IF /\ EnvNameOf(o) \in DOMAIN env
            /\ Coerce(env[EnvNameOf(o)], FileOrDefault(o)).t # "ValueError"
         THEN Coerce(env[EnvNameOf(o)], FileOrDefault(o))
         ELSE FileOrDefault(o))

\* OMNIVOCAL_CHUTES_TIMEOUT_SECONDS=60 over a file that says 10 yields the
\* integer 60
C17_Witness ==
  /\ confOp.op = "load"
  /\ EnvNameOf(OptTimeout) \in DOMAIN env
  /\ env[EnvNameOf(OptTimeout)] = S60
  /\ OptTimeout \in DOMAIN file
  /\ file[OptTimeout] = [t |-> "int", v |-> 10]
  /\ config[OptTimeout] = [t |-> "int", v |-> 60]

\* C18: a `config set` step with a key that has no "." raises ValueError;
\* a step that raises leaves the config as it was; a step that does not
\* raise was given the key of an option, sets that option to the value
\* coerced to the type it had, and leaves every other option as it was; a
\* step given the key of an option and a value that can be coerced does not
\* raise.
C18_SetChangesOneOption ==
  [][(confSteps' # confSteps /\ confOp'.op = "set") =>
       /\ (\A i \in 1..Len(confOp'.key) : confOp'.key[i] # ".")
            => confErr' = "ValueError"
       /\ confErr' # "none" => config' = config
       /\ confErr' = "none" =>
            \E o \in Options :
              /\ confOp'.key = KeyOf(o)
              /\ config'[o] = Coerce(confOp'.value, config[o])
              /\ config'[o].t = config[o].t
              /\ \A q \in Options \ {o} : config'[q] = config[q]
       /\ (\E o \in Options :
             /\ confOp'.key = KeyOf(o)
             /\ Coerce(confOp'.value, config[o]).t # "ValueError")
            => confErr' = "none"]_vars

\* chutes.timeout_seconds was set from " 5 " to the integer 5
C18_Witness ==
  /\ confOp = [op |-> "set", key |-> KeyOf(OptTimeout), value |-> SPad5]
  /\ confErr = "none"
  /\ config[OptTimeout] = [t |-> "int", v |-> 5]

\* C19: after a call of ensure_config, alone or at the start of
\* load_config, the file exists; it has the built-in defaults if it did not
\* exist before, and the contents it had if it did.
C19_EnsureCreatesOrKeeps ==
  [][(confSteps' # confSteps /\ confOp'.op \in {"ensure", "load"}) =>
       /\ fileExists'
       /\ fileExists => file' = file
       /\ ~fileExists => file' = DefaultConfigDict]_vars

\* ensure_config was called MaxConfOps times and nothing else was, and the
\* user's file still differs from the defaults
C19_Witness ==
  /\ confOp.op = "ensure"
  /\ confSteps = MaxConfOps
  /\ config = <<>>
  /\ file # DefaultConfigDict

====
